---- MODULE Spec2Model ----
(***************************************************************************)
(* Mesh health monitoring and graduated failover of                        *)
(* src/src/lib/meshNetwork.ts (class MeshNetworkService).                  *)
(*                                                                         *)
(* JavaScript runs one continuation at a time, so every action below is    *)
(* the code between two suspension points (await) of one handler: the      *)
(* synchronous start of a health check, the settling of one probe, the     *)
(* posture evaluation that follows the barrier, and the public API calls.  *)
(***************************************************************************)
EXTENDS Integers, FiniteSets, Sequences, Bags, TLC

\* ---------------------------------------------------------------- bounds
MaxNodes == 3       \* distinct peer addresses the callers use
MaxTasks == 2       \* health checks / addNode calls in flight at once
NumListeners == 2   \* distinct callback functions there are
MaxRegistrants == 1 \* of these, the ones passed to the on*/remove* calls
MaxCount == 2       \* the scenario's invocation counters saturate here
MaxAlerts == 2      \* calls of sendEmergencyAlerts in flight at once
StartTime == 10000  \* Date.now() when the service is constructed (ms)
MaxElapsed == 8000  \* the clock is followed for this long (ms)
TimedNodes == 1     \* peer addresses used where the clock advances
MaxTokens == 2      \* distinct bearer tokens the configuration uses
MaxCalls == 2       \* calls of the challenge service suspended at once

\* ------------------------------------------------------ program constants
HEARTBEAT_INTERVAL == 1000
HEARTBEAT_TIMEOUT == 3000
MIN_NODES_ARMED == 3
maxAttempts == 3

Urls == 1..MaxNodes
Listeners == 1..NumListeners
ApiListeners == 1..MaxRegistrants
Tokens == 1..MaxTokens

\* The keys the Map can hold: the digests of the addresses modelled.
NodeIds == {100 + u : u \in Urls}

\* A key of the Map that holds no node.
Absent == [status |-> "absent", lastHeartbeat |-> 0, latency |-> 0, url |-> 0,
           apiToken |-> 0]

\* What updateSystemStatus is given when no suspended call runs it.
NoTask == [kind |-> "none", pending |-> {}, orphans |-> {}, start |-> 0, phase |-> 0,
           nodeId |-> 0, probed |-> "none"]

\* A step in which no call of addNode or removeNode returns.
NoRet == [op |-> "none", nodeId |-> 0, removed |-> FALSE, probed |-> "none"]

NoCalls == [l \in Listeners |-> 0]

\* A request that carries nothing: no Authorization header, a body that
\* cannot be read.
NoRequest == [scheme |-> "none", token |-> 0, parsable |-> FALSE,
              nodeId |-> 0, timestamp |-> 0, status |-> ""]

\* The peerStatus of a response that has none.
NoPeerStatus == [nodeId |-> "none", systemStatus |-> "none",
                 onlineNodes |-> 0, totalNodes |-> 0]

\* A step in which no inbound heartbeat is handled.
NoHttp == [request |-> NoRequest,
           response |-> [status |-> 0, success |-> FALSE, error |-> "none",
                         peerStatus |-> NoPeerStatus]]

\* new ChallengeService(): no challenge issued. The fields attempts,
\* completed and failed are those of the challenge object, active says
\* whether activeChallenges holds it, expired whether Date.now() has passed
\* its expiresAt, timer where the setTimeout of issuePinChallenge stands,
\* calls is the bag of the suspended calls (each named by the await it is
\* at) and failures counts the calls of handleChallengeFailed.
NoChallenge == [issued |-> FALSE, active |-> FALSE, attempts |-> 0,
                completed |-> FALSE, failed |-> FALSE, expired |-> FALSE,
                timer |-> "unset", calls |-> EmptyBag, failures |-> 0]

\* A step that evaluates no posture calls no listener and sends no request.
NoEv == [op |-> "none", src |-> "none", prev |-> "none", unsettled |-> 0,
         auth |-> NoCalls, emerg |-> NoCalls, alert |-> <<>>, failsafe |-> <<>>]

VARIABLES
    nodes,                    \* this.nodes: id -> node object (or Absent)
    systemStatus,             \* this.systemStatus
    heartbeatInterval,        \* TRUE while the setInterval timer is set
    emergencyCallbacks,       \* this.emergencyCallbacks
    authenticationCallbacks,  \* this.authenticationCallbacks
    tasks,                    \* bag of the async calls suspended at an await
    now,                      \* Date.now()
    stopped,                  \* shutdown() has returned, no initialize since
    stale,                    \* listeners that were registered at a shutdown
    ev,                       \* what the last step did (calls, requests)
    ret,                      \* what addNode or removeNode returned in the
                              \* last step (kept where scn.log is set)
    alerts,                   \* bag of the calls of sendEmergencyAlerts
                              \* suspended at a fetch (kept where
                              \* scn.channels is set)
    http,                     \* the inbound heartbeat request handled in
                              \* the last step and the response to it
    chal,                     \* the PIN challenge service: the challenge
                              \* object, the Map and the suspended calls
    scn                       \* the calls made so far, the end-to-end
                              \* scenario's environment and its log

vars == <<nodes, systemStatus, heartbeatInterval, emergencyCallbacks,
          authenticationCallbacks, tasks, now, stopped, stale, ev, ret,
          alerts, http, chal, scn>>

\* ------------------------------------------------------------- helpers
\* The node object initialize and addNode build; the caller passes the
\* token configured for the address.
NewNode(url) == [status |-> "offline", lastHeartbeat |-> 0, latency |-> 0,
                 url |-> url, apiToken |-> scn.tokens[url]]

Registered(ns) == {i \in NodeIds : ns[i].status # "absent"}

\* Array.from(this.nodes.values()).filter(n => n.status === 'online').length
OnlineNodes(ns) == Cardinality({i \in NodeIds : ns[i].status = "online"})

\* this.nodes.size
TotalNodes(ns) == Cardinality(Registered(ns))

Running == BagToSet(tasks)

\* Probes in flight whose node object is still the one in the Map.
InFlight == {n \in NodeIds : \E r \in Running : n \in r.pending \ r.orphans}

Inc(c) == IF c < MaxCount THEN c + 1 ELSE c

\* Faulty variant: ids handed out in the order of registration.
generateNodeIdSequential(url) == 101 + (TotalNodes(nodes) % MaxNodes)

\* The 8-hex-digit digest of the address: a fixed function of the address
\* alone, distinct for the addresses modelled.
generateNodeId(url) == 100 + url

\* ---------------------------------------------------- updateSystemStatus
\* Faulty variant: the armed threshold compared with > instead of >=.
NextSystemStatusStrict(onlineNodes) ==
    IF onlineNodes > MIN_NODES_ARMED THEN "armed"
    ELSE IF onlineNodes = 2 THEN "disarmed"
    ELSE IF onlineNodes = 1 THEN "critical"
    ELSE "critical"

\* The branch of lines 137-163 taken for a count of online nodes.
NextSystemStatus(onlineNodes) ==
    IF onlineNodes >= MIN_NODES_ARMED THEN "armed"
    ELSE IF onlineNodes = 2 THEN "disarmed"
    ELSE IF onlineNodes = 1 THEN "critical"
    ELSE "critical"

\* Faulty variant: the disarmed branch without its test of previousStatus.
AuthTriggeredEveryTime(previousStatus, onlineNodes) ==
    /\ onlineNodes < MIN_NODES_ARMED
    /\ onlineNodes = 2

\* Faulty variant: the disarmed branch testing for any change of posture.
AuthTriggeredOnEntry(previousStatus, onlineNodes) ==
    /\ onlineNodes < MIN_NODES_ARMED
    /\ onlineNodes = 2
    /\ previousStatus # "disarmed"

\* Line 143: the disarmed branch calls triggerUserAuthentication.
AuthTriggered(previousStatus, onlineNodes) ==
    /\ onlineNodes < MIN_NODES_ARMED
    /\ onlineNodes = 2
    /\ previousStatus = "armed"

\* Faulty variant: the critical branches without their test of previousStatus.
EmergencyTriggeredEveryTime(previousStatus, onlineNodes) ==
    /\ onlineNodes < MIN_NODES_ARMED
    /\ onlineNodes # 2

\* Faulty variant: the critical branches run the emergency path only when
\* the posture falls from armed.
EmergencyTriggeredFromArmed(previousStatus, onlineNodes) ==
    /\ onlineNodes < MIN_NODES_ARMED
    /\ onlineNodes # 2
    /\ previousStatus = "armed"

\* Lines 151 and 159: the two critical branches call triggerEmergency.
EmergencyTriggered(previousStatus, onlineNodes) ==
    /\ onlineNodes < MIN_NODES_ARMED
    /\ onlineNodes # 2
    /\ previousStatus # "critical"

\* Faulty variant: the calls are not wrapped in try/catch, so the first
\* listener that throws ends the iteration (in the order of the ids).
forEachUncaught(callbacks) ==
    [l \in Listeners |->
        IF l \in callbacks /\ ~\E t \in callbacks \cap scn.throwers : t < l
        THEN 1 ELSE 0]

\* forEach over the Set, each call in its own try/catch that logs: how
\* often each listener is called, whichever of them throw.
forEach(callbacks) ==
    [l \in Listeners |-> IF l \in callbacks THEN 1 ELSE 0]

triggerUserAuthentication == forEach(authenticationCallbacks)

notifyEmergencyCallbacks == forEach(emergencyCallbacks)

\* Faulty variant: the notice reports the online count as the total.
sendEmergencyAlertsOnlineOnly(ns) == <<OnlineNodes(ns), OnlineNodes(ns)>>

\* The body of the first request of sendEmergencyAlerts, built when
\* triggerEmergency calls it: <<onlineNodes, totalNodes>>.
sendEmergencyAlerts(ns) == <<OnlineNodes(ns), TotalNodes(ns)>>

\* The body of the request of activateFailsafeMeasures: <<remainingNodes>>.
activateFailsafeMeasures(ns) == <<OnlineNodes(ns)>>

\* The requests triggerEmergency has issued when it suspends: the first
\* fetch of sendEmergencyAlerts, which is in flight, and the fetch of
\* activateFailsafeMeasures.
triggerEmergency ==
    [pending |-> "/api/send-alert",
     attempted |-> {"/api/send-alert", "/api/activate-failsafe"}]

\* updateSystemStatus on the node map ns, up to its first await: the new
\* posture and everything triggerUserAuthentication / triggerEmergency do
\* before they suspend. task is the suspended call that runs it.
updateSystemStatus(ns, src, task) ==
    LET onlineNodes == OnlineNodes(ns)
        previousStatus == systemStatus
        auth == IF AuthTriggered(previousStatus, onlineNodes)
                THEN triggerUserAuthentication ELSE NoCalls
        emergency == EmergencyTriggered(previousStatus, onlineNodes)
        emerg == IF emergency THEN notifyEmergencyCallbacks ELSE NoCalls
        alert == IF emergency THEN sendEmergencyAlerts(ns) ELSE <<>>
        failsafe == IF emergency THEN activateFailsafeMeasures(ns) ELSE <<>>
    IN  /\ systemStatus' = NextSystemStatus(onlineNodes)
        /\ alerts' = IF emergency /\ scn.channels
                     THEN alerts (+) SetToBag({triggerEmergency})
                     ELSE alerts
        /\ ev' = [NoEv EXCEPT !.op = "eval", !.src = src,
                              !.prev = previousStatus,
                              !.unsettled = Cardinality(task.pending),
                              !.auth = auth, !.emerg = emerg,
                              !.alert = alert, !.failsafe = failsafe]
        /\ scn' = IF scn.rec
                  THEN [scn EXCEPT
                          !.authCount = [l \in Listeners |->
                                            IF auth[l] > 0 THEN Inc(@[l]) ELSE @[l]],
                          !.emergCount = [l \in Listeners |->
                                            IF emerg[l] > 0 THEN Inc(@[l]) ELSE @[l]],
                          !.notices = IF emergency /\ Len(@) < MaxCount
                                      THEN Append(@, alert) ELSE @,
                          !.initResolved = @ \/ src = "init",
                          !.observed = IF src = "tick" /\ task.phase = Cardinality(scn.failing)
                                       THEN task.phase ELSE @]
                  ELSE scn

\* Faulty variant: the snapshot derives the posture from the current count
\* of online nodes instead of reading the stored field.
getMeshStatusDerived ==
    [totalNodes |-> TotalNodes(nodes),
     onlineNodes |-> OnlineNodes(nodes),
     systemStatus |-> NextSystemStatus(OnlineNodes(nodes)),
     requiresUserAuthentication |-> OnlineNodes(nodes) = 2,
     emergencyTriggered |-> OnlineNodes(nodes) <= 1]

\* getMeshStatus()
getMeshStatus ==
    [totalNodes |-> TotalNodes(nodes),
     onlineNodes |-> OnlineNodes(nodes),
     systemStatus |-> systemStatus,
     requiresUserAuthentication |-> systemStatus = "disarmed" /\ OnlineNodes(nodes) = 2,
     emergencyTriggered |-> systemStatus = "critical"]

\* ------------------------------------------------------------- actions
\* performHealthCheck up to its await: one probe per node of the Map.
performHealthCheck(ns, kind) ==
    [kind |-> kind, pending |-> Registered(ns), orphans |-> {}, start |-> now,
     phase |-> Cardinality(scn.failing), nodeId |-> 0, probed |-> "none"]

\* Once the Map entry of an id is replaced or deleted, the probes in flight
\* for it hold a node object that is no longer in the Map.
Detach(ts, ids) ==
    LET detached(r) == [r EXCEPT !.orphans = @ \cup (ids \cap r.pending)]
    IN  BagOfAll(detached, ts)

\* Faulty variant: the probes are started but not awaited.
AllSettledNoAwait(task) == TRUE

\* await Promise.allSettled(healthCheckPromises) / await checkNodeHealth(node)
AllSettled(task) == task.pending = {}

\* A continuation that is ready runs before the next timer callback.
MicrotasksDrained == \A r \in Running : ~AllSettled(r)

\* initialize(nodeConfigs), up to the await of the initial health check.
Initialize(urls) ==
    /\ ~scn.initialized
    /\ BagCardinality(tasks) < MaxTasks
    /\ LET ids == {generateNodeId(u) : u \in urls}
           ns == [i \in NodeIds |->
                    IF i \in ids
                    THEN NewNode(CHOOSE u \in urls : generateNodeId(u) = i)
                    ELSE nodes[i]]
       IN  /\ nodes' = ns
           /\ tasks' = Detach(tasks, ids) (+) SetToBag({performHealthCheck(ns, "init")})
    /\ heartbeatInterval' = TRUE
    /\ stopped' = FALSE
    /\ ev' = NoEv
    /\ ret' = NoRet
    /\ alerts' = alerts
    /\ scn' = [scn EXCEPT !.initialized = TRUE,
                          !.ids = [u \in Urls |->
                                     IF scn.log /\ u \in urls
                                     THEN @[u] \cup {generateNodeId(u)} ELSE @[u]],
                          !.latest = [i \in NodeIds |->
                                        IF i \in {generateNodeId(u) : u \in urls}
                                        THEN 0 ELSE @[i]]]
    /\ UNCHANGED <<systemStatus, emergencyCallbacks, authenticationCallbacks, now, stale>>
    /\ http' = NoHttp
    /\ chal' = chal

\* Faulty variant: the timer callback does nothing once the posture is
\* critical.
TimerFireUnlessCritical ==
    /\ heartbeatInterval
    /\ systemStatus # "critical"
    /\ MicrotasksDrained
    /\ BagCardinality(tasks) < MaxTasks
    /\ tasks' = tasks (+) SetToBag({performHealthCheck(nodes, "tick")})
    /\ ev' = NoEv
    /\ ret' = NoRet
    /\ alerts' = alerts
    /\ UNCHANGED <<nodes, systemStatus, heartbeatInterval, emergencyCallbacks,
                   authenticationCallbacks, now, stopped, stale, scn>>
    /\ http' = NoHttp
    /\ chal' = chal

\* The setInterval callback: a new performHealthCheck, whatever is running.
TimerFire ==
    /\ heartbeatInterval
    /\ MicrotasksDrained
    /\ BagCardinality(tasks) < MaxTasks
    /\ tasks' = tasks (+) SetToBag({performHealthCheck(nodes, "tick")})
    /\ ev' = NoEv
    /\ ret' = NoRet
    /\ alerts' = alerts
    /\ UNCHANGED <<nodes, systemStatus, heartbeatInterval, emergencyCallbacks,
                   authenticationCallbacks, now, stopped, stale, scn>>
    /\ http' = NoHttp
    /\ chal' = chal

\* Faulty variant: only the 5xx statuses count as failures.
responseOkBelow500(status) == status >= 200 /\ status <= 499

\* response.ok of a fetch that resolved: the status is in the 2xx range.
responseOk(status) == status >= 200 /\ status <= 299

\* checkNodeHealth after its fetch settles: the response was ok, or the
\* fetch failed, was aborted by the timeout or answered a non-2xx status.
checkNodeHealth(node, ok, startTime) ==
    IF ok
    THEN [status |-> "online", lastHeartbeat |-> now, latency |-> now - startTime,
          url |-> node.url, apiToken |-> node.apiToken]
    ELSE [status |-> IF now - node.lastHeartbeat > HEARTBEAT_TIMEOUT * 2
                     THEN "offline" ELSE "unreachable",
          lastHeartbeat |-> node.lastHeartbeat,
          latency |-> now - startTime,
          url |-> node.url, apiToken |-> node.apiToken]

\* The task r once its probe of n has settled; a call of addNode goes on
\* knowing how its probe ended.
Settled(r, n, ok) ==
    [r EXCEPT !.pending = @ \ {n}, !.orphans = @ \ {n},
              !.probed = IF scn.log /\ r.kind = "add"
                         THEN (IF ok THEN "ok" ELSE "failed") ELSE @]

\* Faulty variant: the result is stored under the node's id, whether or not
\* the Map still holds the node object that was probed.
ProbeSettleById(r, n, ok) ==
    /\ r \in Running
    /\ n \in r.pending
    /\ nodes' = [nodes EXCEPT ![n] = checkNodeHealth(
                     IF @.status = "absent" THEN NewNode(n - 100) ELSE @,
                     ok, r.start)]
    /\ tasks' = (tasks (-) SetToBag({r})) (+) SetToBag({Settled(r, n, ok)})
    /\ ev' = NoEv
    /\ ret' = NoRet
    /\ alerts' = alerts
    /\ UNCHANGED <<systemStatus, heartbeatInterval, emergencyCallbacks,
                   authenticationCallbacks, now, stopped, stale, scn>>
    /\ http' = NoHttp
    /\ chal' = chal

ProbeSettle(r, n, ok) ==
    /\ r \in Running
    /\ n \in r.pending
    /\ nodes' = IF n \in r.orphans THEN nodes
                ELSE [nodes EXCEPT ![n] = checkNodeHealth(@, ok, r.start)]
    /\ tasks' = (tasks (-) SetToBag({r})) (+) SetToBag({Settled(r, n, ok)})
    /\ ev' = NoEv
    /\ ret' = NoRet
    /\ alerts' = alerts
    /\ scn' = IF scn.clock /\ n \notin r.orphans /\ r.start > scn.latest[n]
              THEN [scn EXCEPT !.latest[n] = r.start] ELSE scn
    /\ UNCHANGED <<systemStatus, heartbeatInterval, emergencyCallbacks,
                   authenticationCallbacks, now, stopped, stale>>
    /\ http' = NoHttp
    /\ chal' = chal

\* The continuation after the barrier: updateSystemStatus.
Evaluate(r) ==
    /\ r \in Running
    /\ AllSettled(r)
    /\ updateSystemStatus(nodes, r.kind, r)
    /\ tasks' = tasks (-) SetToBag({r})
    /\ ret' = IF scn.log /\ r.kind = "add"
              THEN [NoRet EXCEPT !.op = "addNode", !.nodeId = r.nodeId,
                                 !.probed = r.probed]
              ELSE NoRet
    /\ UNCHANGED <<nodes, heartbeatInterval, emergencyCallbacks,
                   authenticationCallbacks, now, stopped, stale>>
    /\ http' = NoHttp
    /\ chal' = chal

\* addNode(url, apiToken), up to the await of its probe.
AddNode(url) ==
    /\ BagCardinality(tasks) < MaxTasks
    /\ LET id == generateNodeId(url)
       IN  /\ nodes' = [nodes EXCEPT ![id] = NewNode(url)]
           /\ tasks' = Detach(tasks, {id}) (+)
                       SetToBag({[kind |-> "add", pending |-> {id}, orphans |-> {},
                                  start |-> now, phase |-> Cardinality(scn.failing),
                                  nodeId |-> IF scn.log THEN id ELSE 0,
                                  probed |-> "none"]})
    /\ ev' = NoEv
    /\ ret' = NoRet
    /\ alerts' = alerts
    /\ scn' = [scn EXCEPT !.added = TRUE,
                          !.ids[url] = IF scn.log
                                       THEN @ \cup {generateNodeId(url)} ELSE @,
                          !.latest[generateNodeId(url)] = 0]
    /\ UNCHANGED <<systemStatus, heartbeatInterval, emergencyCallbacks,
                   authenticationCallbacks, now, stopped, stale>>
    /\ http' = NoHttp
    /\ chal' = chal

\* Faulty variant: the result of the delete is not looked at.
deleteAlways(id) == TRUE

\* The value of this.nodes.delete(nodeId): whether the Map held the key.
delete(id) == nodes[id].status # "absent"

\* removeNode(nodeId): the delete and, if it removed, updateSystemStatus.
RemoveNode(id) ==
    /\ IF delete(id)
       THEN LET ns == [nodes EXCEPT ![id] = Absent]
            IN  /\ nodes' = ns
                /\ tasks' = Detach(tasks, {id})
                /\ updateSystemStatus(ns, "remove", NoTask)
       ELSE /\ ev' = NoEv
            /\ UNCHANGED <<nodes, tasks, systemStatus, alerts, scn>>
    /\ ret' = IF scn.log
              THEN [NoRet EXCEPT !.op = "removeNode", !.nodeId = id,
                                 !.removed = delete(id)]
              ELSE NoRet
    /\ UNCHANGED <<heartbeatInterval, emergencyCallbacks,
                   authenticationCallbacks, now, stopped, stale>>
    /\ http' = NoHttp
    /\ chal' = chal

OnEmergency(l) ==
    /\ emergencyCallbacks' = emergencyCallbacks \cup {l}
    /\ stale' = [stale EXCEPT !.emerg = @ \ {l}]
    /\ ev' = NoEv
    /\ ret' = NoRet
    /\ alerts' = alerts
    /\ UNCHANGED <<nodes, systemStatus, heartbeatInterval,
                   authenticationCallbacks, tasks, now, stopped, scn>>
    /\ http' = NoHttp
    /\ chal' = chal

OnAuthenticationRequired(l) ==
    /\ authenticationCallbacks' = authenticationCallbacks \cup {l}
    /\ stale' = [stale EXCEPT !.auth = @ \ {l}]
    /\ ev' = NoEv
    /\ ret' = NoRet
    /\ alerts' = alerts
    /\ UNCHANGED <<nodes, systemStatus, heartbeatInterval,
                   emergencyCallbacks, tasks, now, stopped, scn>>
    /\ http' = NoHttp
    /\ chal' = chal

\* Faulty variant: the listener is deleted from both Sets.
RemoveEmergencyCallbackFromBoth(l) ==
    /\ emergencyCallbacks' = emergencyCallbacks \ {l}
    /\ authenticationCallbacks' = authenticationCallbacks \ {l}
    /\ ev' = NoEv
    /\ ret' = NoRet
    /\ alerts' = alerts
    /\ UNCHANGED <<nodes, systemStatus, heartbeatInterval,
                   tasks, now, stopped, stale, scn>>
    /\ http' = NoHttp
    /\ chal' = chal

RemoveEmergencyCallback(l) ==
    /\ emergencyCallbacks' = emergencyCallbacks \ {l}
    /\ ev' = NoEv
    /\ ret' = NoRet
    /\ alerts' = alerts
    /\ UNCHANGED <<nodes, systemStatus, heartbeatInterval,
                   authenticationCallbacks, tasks, now, stopped, stale, scn>>
    /\ http' = NoHttp
    /\ chal' = chal

RemoveAuthenticationCallback(l) ==
    /\ authenticationCallbacks' = authenticationCallbacks \ {l}
    /\ ev' = NoEv
    /\ ret' = NoRet
    /\ alerts' = alerts
    /\ UNCHANGED <<nodes, systemStatus, heartbeatInterval,
                   emergencyCallbacks, tasks, now, stopped, stale, scn>>
    /\ http' = NoHttp
    /\ chal' = chal

\* Faulty variant: shutdown leaves the Set as it is.
clearNothing(callbacks) == callbacks

\* Set.clear()
clear(callbacks) == {}

\* shutdown()
Shutdown ==
    /\ heartbeatInterval' = FALSE
    /\ emergencyCallbacks' = clear(emergencyCallbacks)
    /\ authenticationCallbacks' = clear(authenticationCallbacks)
    /\ stopped' = TRUE
    /\ stale' = [auth |-> stale.auth \cup authenticationCallbacks,
                 emerg |-> stale.emerg \cup emergencyCallbacks]
    /\ ev' = NoEv
    /\ ret' = NoRet
    /\ alerts' = alerts
    /\ UNCHANGED <<nodes, systemStatus, tasks, now, scn>>
    /\ http' = NoHttp
    /\ chal' = chal

\* sendEmergencyAlerts after the fetch it awaits settles: the next fetch
\* of the try block when the promise fulfilled, the catch when it rejected.
NextRequest(request, ok) ==
    IF ~ok THEN "none"
    ELSE IF request = "/api/send-alert" THEN "/api/emergency-sms"
    ELSE IF request = "/api/emergency-sms" THEN "/api/emergency-call"
    ELSE "none"

\* The fetch that the call a of sendEmergencyAlerts awaits settles; the call
\* goes on to its next fetch or returns.
AlertSettle(a, ok) ==
    /\ a \in BagToSet(alerts)
    /\ LET next == NextRequest(a.pending, ok)
       IN  alerts' = IF next = "none"
                     THEN alerts (-) SetToBag({a})
                     ELSE (alerts (-) SetToBag({a})) (+)
                          SetToBag({[pending |-> next,
                                     attempted |-> a.attempted \cup {next}]})
    /\ ev' = NoEv
    /\ ret' = NoRet
    /\ UNCHANGED <<nodes, systemStatus, heartbeatInterval, emergencyCallbacks,
                   authenticationCallbacks, tasks, now, stopped, stale, scn>>
    /\ http' = NoHttp
    /\ chal' = chal

\* Time passes, one timer period at a time. A fetch is aborted
\* HEARTBEAT_TIMEOUT after its probe started, so no probe is in flight
\* for longer than that.
Tock ==
    /\ now + HEARTBEAT_INTERVAL <= StartTime + MaxElapsed
    /\ \A r \in Running :
          r.pending # {} => now + HEARTBEAT_INTERVAL - r.start <= HEARTBEAT_TIMEOUT
    /\ MicrotasksDrained
    /\ now' = now + HEARTBEAT_INTERVAL
    /\ ev' = NoEv
    /\ ret' = NoRet
    /\ UNCHANGED <<nodes, systemStatus, heartbeatInterval, emergencyCallbacks,
                   authenticationCallbacks, tasks, stopped, stale, alerts, scn>>
    /\ http' = NoHttp
    /\ chal' = chal

\* The scenario's environment: a peer stops answering. The first peer fails
\* once initialize has resolved, the second once a tick that started after
\* the first failure has been evaluated.
NodeFails(n) ==
    /\ scn.rec
    /\ n \in Registered(nodes) \ scn.failing
    /\ \/ scn.failing = {} /\ scn.initResolved
       \/ Cardinality(scn.failing) = 1 /\ scn.observed = 1
    /\ scn' = [scn EXCEPT !.failing = @ \cup {n}]
    /\ ev' = NoEv
    /\ ret' = NoRet
    /\ alerts' = alerts
    /\ UNCHANGED <<nodes, systemStatus, heartbeatInterval, emergencyCallbacks,
                   authenticationCallbacks, tasks, now, stopped, stale>>
    /\ http' = NoHttp
    /\ chal' = chal

\* ----------------------------------------- the inbound heartbeat route
\* The requests a peer or a stranger may send: any Authorization header
\* (none, another scheme, Bearer with a configured token or with one that
\* no node has) and any body (unreadable, or JSON with each of nodeId,
\* timestamp and status present or missing; 100 is an id of no address
\* modelled).
Requests ==
    LET headers == {[scheme |-> "none", token |-> 0], [scheme |-> "Basic", token |-> 0]}
                   \cup {[scheme |-> "Bearer", token |-> t] : t \in 1..(MaxTokens + 1)}
        bodies == {[parsable |-> FALSE, nodeId |-> 0, timestamp |-> 0, status |-> ""]}
                  \cup [parsable : {TRUE}, nodeId : NodeIds \cup {0, 100},
                        timestamp : {0, 1}, status : {"", "online"}]
    IN  {[scheme |-> h.scheme, token |-> h.token, parsable |-> b.parsable,
          nodeId |-> b.nodeId, timestamp |-> b.timestamp, status |-> b.status] :
            h \in headers, b \in bodies}

\* meshNetworkService.getNodes(): the ids of the node objects returned.
getNodes == Registered(nodes)

\* Faulty variant: the node is looked up by its token alone.
authenticatedNodeByToken(nodeId, token) ==
    {i \in getNodes : nodes[i].apiToken = token}

\* nodes.find(node => node.id === nodeId && node.apiToken === token): the
\* nodes that match (none when find returns undefined).
authenticatedNode(nodeId, token) ==
    {i \in getNodes : i = nodeId /\ nodes[i].apiToken = token}

\* An error response of the route.
ErrorResponse(status, error) ==
    [status |-> status, success |-> FALSE, error |-> error,
     peerStatus |-> NoPeerStatus]

\* The response POST returns for a request, the checks in the order of the
\* code; request.json() rejecting leads to the catch.
Response(request) ==
    IF request.scheme # "Bearer"
    THEN ErrorResponse(401, "Unauthorized: Missing or invalid authorization header")
    ELSE IF ~request.parsable
    THEN ErrorResponse(500, "Internal server error")
    ELSE IF request.nodeId = 0 \/ request.timestamp = 0 \/ request.status = ""
    THEN ErrorResponse(400, "Invalid heartbeat payload")
    ELSE IF authenticatedNode(request.nodeId, request.token) = {}
    THEN ErrorResponse(401, "Unauthorized: Invalid node credentials")
    ELSE [status |-> 200, success |-> TRUE, error |-> "none",
          peerStatus |-> [nodeId |-> "local",
                          systemStatus |-> getMeshStatus.systemStatus,
                          onlineNodes |-> getMeshStatus.onlineNodes,
                          totalNodes |-> getMeshStatus.totalNodes]]

\* Faulty variant: an accepted heartbeat marks its sender online.
POSTMarksSender(request) ==
    /\ http' = [request |-> request, response |-> Response(request)]
    /\ nodes' = IF Response(request).status = 200
                THEN [nodes EXCEPT ![request.nodeId].status = "online"]
                ELSE nodes
    /\ ev' = NoEv
    /\ ret' = NoRet
    /\ UNCHANGED <<systemStatus, heartbeatInterval, emergencyCallbacks,
                   authenticationCallbacks, tasks, now, stopped, stale, alerts,
                   chal, scn>>

\* POST /api/mesh/heartbeat: the handler reads the service and answers.
POST(request) ==
    /\ http' = [request |-> request, response |-> Response(request)]
    /\ ev' = NoEv
    /\ ret' = NoRet
    /\ UNCHANGED <<nodes, systemStatus, heartbeatInterval, emergencyCallbacks,
                   authenticationCallbacks, tasks, now, stopped, stale, alerts,
                   chal, scn>>

\* The environment of the recovery scenario: from here on every peer
\* answers every probe sent to it.
PeersRecover ==
    /\ ~scn.rec
    /\ scn.failing # {}
    /\ scn' = [scn EXCEPT !.failing = {}]
    /\ ev' = NoEv
    /\ ret' = NoRet
    /\ alerts' = alerts
    /\ http' = NoHttp
    /\ chal' = chal
    /\ UNCHANGED <<nodes, systemStatus, heartbeatInterval, emergencyCallbacks,
                   authenticationCallbacks, tasks, now, stopped, stale>>

\* -------------------------------------------- the PIN challenge service
\* The mesh service's variables, which the challenge service leaves alone.
meshVars == <<nodes, systemStatus, heartbeatInterval, emergencyCallbacks,
              authenticationCallbacks, tasks, now, stopped, stale, ev, ret,
              alerts, http, scn>>

\* The call c suspends at an await / the suspended call c returns.
Suspend(calls, c) == calls (+) SetToBag({c})
Return(calls, c) == calls (-) SetToBag({c})

\* issuePinChallenge, up to the await of updateAnomalyEvent.
IssuePinChallenge ==
    /\ ~chal.issued
    /\ chal' = [chal EXCEPT !.issued = TRUE, !.active = TRUE, !.attempts = 0,
                            !.completed = FALSE, !.failed = FALSE,
                            !.calls = Suspend(@, "issue")]
    /\ UNCHANGED meshVars

\* issuePinChallenge after updateAnomalyEvent: the timeout handler is set.
IssueResume ==
    /\ "issue" \in BagToSet(chal.calls)
    /\ chal' = [chal EXCEPT !.timer = "set", !.calls = Return(@, "issue")]
    /\ UNCHANGED meshVars

\* Date.now() passes the challenge's expiresAt.
Expire ==
    /\ chal.issued /\ ~chal.expired
    /\ chal' = [chal EXCEPT !.expired = TRUE]
    /\ UNCHANGED meshVars

\* The setTimeout callback: handleChallengeTimeout up to its await.
handleChallengeTimeout ==
    /\ chal.timer = "set" /\ chal.expired
    /\ chal' = IF chal.active /\ ~chal.completed /\ ~chal.failed
               THEN [chal EXCEPT !.timer = "fired", !.failed = TRUE,
                                 !.failures = @ + 1,
                                 !.calls = Suspend(@, "timeout")]
               ELSE [chal EXCEPT !.timer = "fired"]
    /\ UNCHANGED meshVars

\* submitPinAttempt(challengeId, pin), up to its first await or return.
submitPinAttempt ==
    /\ chal.issued
    /\ BagCardinality(chal.calls) < MaxCalls
    /\ chal' = IF ~chal.active THEN chal
               ELSE IF chal.completed \/ chal.failed THEN chal
               ELSE IF chal.expired
               THEN [chal EXCEPT !.failed = TRUE, !.failures = @ + 1,
                                 !.calls = Suspend(@, "expired")]
               ELSE [chal EXCEPT !.attempts = @ + 1,
                                 !.calls = Suspend(@, "verify")]
    /\ UNCHANGED meshVars

\* submitPinAttempt after verifyPin resolved with isValidPin.
VerifySettle(isValidPin) ==
    /\ "verify" \in BagToSet(chal.calls)
    /\ chal' = IF isValidPin
               THEN [chal EXCEPT !.completed = TRUE,
                                 !.calls = Suspend(Return(@, "verify"), "completed")]
               ELSE IF chal.attempts >= maxAttempts
               THEN [chal EXCEPT !.failed = TRUE, !.failures = @ + 1,
                                 !.calls = Suspend(Return(@, "verify"), "failed")]
               ELSE [chal EXCEPT !.calls = Return(@, "verify")]
    /\ UNCHANGED meshVars

\* The call c resumes after handleChallengeCompleted or
\* handleChallengeFailed: the delete from the Map, except on the path of
\* the expired challenge, which returns without it.
HandlerSettle(c) ==
    /\ c \in BagToSet(chal.calls) \cap {"completed", "failed", "expired", "timeout"}
    /\ chal' = [chal EXCEPT !.active = IF c = "expired" THEN @ ELSE FALSE,
                            !.calls = Return(@, c)]
    /\ UNCHANGED meshVars

\* ------------------------------------------------------- specifications
NoScenario == [rec |-> FALSE, log |-> FALSE,
               initialized |-> FALSE, added |-> FALSE,
               ids |-> [u \in Urls |-> {}], throwers |-> {}, channels |-> FALSE,
               tokens |-> [u \in Urls |-> 1],
               clock |-> FALSE, latest |-> [i \in NodeIds |-> 0],
               initResolved |-> FALSE, failing |-> {}, observed |-> 0,
               authCount |-> NoCalls, emergCount |-> NoCalls, notices |-> <<>>]

\* new MeshNetworkService()
Init ==
    /\ nodes = [i \in NodeIds |-> Absent]
    /\ systemStatus = "disarmed"
    /\ heartbeatInterval = FALSE
    /\ emergencyCallbacks = {}
    /\ authenticationCallbacks = {}
    /\ tasks = EmptyBag
    /\ now = StartTime
    /\ stopped = FALSE
    /\ stale = [auth |-> {}, emerg |-> {}]
    /\ ev = NoEv
    /\ ret = NoRet
    /\ alerts = EmptyBag
    /\ http = NoHttp
    /\ chal = NoChallenge
    /\ scn = NoScenario

\* Every interleaving of the health checks with the registry and listener
\* API, probes answering or failing at will. initialize is called once; the
\* timer may fire whenever it is set and no continuation is ready, which
\* covers every duration a probe can take (up to HEARTBEAT_TIMEOUT, three
\* times HEARTBEAT_INTERVAL); all steps read the same clock value.
Next ==
    \/ \E urls \in SUBSET Urls : Initialize(urls)
    \/ TimerFire
    \/ \E r \in Running, n \in NodeIds, ok \in BOOLEAN : ProbeSettle(r, n, ok)
    \/ \E r \in Running : Evaluate(r)
    \/ \E u \in Urls : AddNode(u)
    \/ \E i \in NodeIds : RemoveNode(i)
    \/ \E l \in ApiListeners : OnEmergency(l)
    \/ \E l \in ApiListeners : OnAuthenticationRequired(l)
    \/ \E l \in ApiListeners : RemoveEmergencyCallback(l)
    \/ \E l \in ApiListeners : RemoveAuthenticationCallback(l)

Spec == Init /\ [][Next]_vars

\* The life cycle of a mesh of three configured peers, shutdown() included.
NextShutdown ==
    \/ Initialize(Urls)
    \/ TimerFire
    \/ \E r \in Running, n \in NodeIds, ok \in BOOLEAN : ProbeSettle(r, n, ok)
    \/ \E r \in Running : Evaluate(r)
    \/ \E l \in ApiListeners : OnEmergency(l)
    \/ \E l \in ApiListeners : OnAuthenticationRequired(l)
    \/ \E l \in ApiListeners : RemoveEmergencyCallback(l)
    \/ \E l \in ApiListeners : RemoveAuthenticationCallback(l)
    \/ Shutdown

SpecShutdown == Init /\ [][NextShutdown]_vars

\* The end-to-end scenario: listeners registered on the new service, three
\* peers configured, then one peer after the other stops answering.
InitE2E ==
    /\ nodes = [i \in NodeIds |-> Absent]
    /\ systemStatus = "disarmed"
    /\ heartbeatInterval = FALSE
    /\ emergencyCallbacks \in SUBSET ApiListeners
    /\ authenticationCallbacks \in SUBSET ApiListeners
    /\ tasks = EmptyBag
    /\ now = StartTime
    /\ stopped = FALSE
    /\ stale = [auth |-> {}, emerg |-> {}]
    /\ ev = NoEv
    /\ ret = NoRet
    /\ alerts = EmptyBag
    /\ http = NoHttp
    /\ chal = NoChallenge
    /\ scn = [NoScenario EXCEPT !.rec = TRUE]

NextE2E ==
    \/ Initialize({1, 2, 3})
    \/ TimerFire
    \/ \E r \in Running, n \in NodeIds : ProbeSettle(r, n, n \notin scn.failing)
    \/ \E r \in Running : Evaluate(r)
    \/ \E n \in NodeIds : NodeFails(n)

SpecE2E == InitE2E /\ [][NextE2E]_vars

\* The registry API next to the health checks, with the ids that initialize
\* and addNode hand out kept in a log; no listener is registered.
InitRegistry ==
    /\ nodes = [i \in NodeIds |-> Absent]
    /\ systemStatus = "disarmed"
    /\ heartbeatInterval = FALSE
    /\ emergencyCallbacks = {}
    /\ authenticationCallbacks = {}
    /\ tasks = EmptyBag
    /\ now = StartTime
    /\ stopped = FALSE
    /\ stale = [auth |-> {}, emerg |-> {}]
    /\ ev = NoEv
    /\ ret = NoRet
    /\ alerts = EmptyBag
    /\ http = NoHttp
    /\ chal = NoChallenge
    /\ scn = [NoScenario EXCEPT !.log = TRUE]

NextRegistry ==
    \/ \E urls \in SUBSET Urls : Initialize(urls)
    \/ TimerFire
    \/ \E r \in Running, n \in NodeIds, ok \in BOOLEAN : ProbeSettle(r, n, ok)
    \/ \E r \in Running : Evaluate(r)
    \/ \E u \in Urls : AddNode(u)
    \/ \E i \in NodeIds : RemoveNode(i)

SpecRegistry == InitRegistry /\ [][NextRegistry]_vars

\* A mesh of three configured peers with listeners registered on the new
\* service, some of which throw whenever they are called.
InitThrowing ==
    /\ nodes = [i \in NodeIds |-> Absent]
    /\ systemStatus = "disarmed"
    /\ heartbeatInterval = FALSE
    /\ emergencyCallbacks \in SUBSET Listeners
    /\ authenticationCallbacks \in SUBSET Listeners
    /\ tasks = EmptyBag
    /\ now = StartTime
    /\ stopped = FALSE
    /\ stale = [auth |-> {}, emerg |-> {}]
    /\ ev = NoEv
    /\ ret = NoRet
    /\ alerts = EmptyBag
    /\ http = NoHttp
    /\ chal = NoChallenge
    /\ \E t \in SUBSET Listeners : scn = [NoScenario EXCEPT !.throwers = t]

NextThrowing ==
    \/ Initialize(Urls)
    \/ TimerFire
    \/ \E r \in Running, n \in NodeIds, ok \in BOOLEAN : ProbeSettle(r, n, ok)
    \/ \E r \in Running : Evaluate(r)

SpecThrowing == InitThrowing /\ [][NextThrowing]_vars

\* A mesh of three configured peers with the requests of its emergencies
\* followed to their end, each request succeeding or failing.
InitAlerts ==
    /\ nodes = [i \in NodeIds |-> Absent]
    /\ systemStatus = "disarmed"
    /\ heartbeatInterval = FALSE
    /\ emergencyCallbacks \in SUBSET ApiListeners
    /\ authenticationCallbacks = {}
    /\ tasks = EmptyBag
    /\ now = StartTime
    /\ stopped = FALSE
    /\ stale = [auth |-> {}, emerg |-> {}]
    /\ ev = NoEv
    /\ ret = NoRet
    /\ alerts = EmptyBag
    /\ http = NoHttp
    /\ chal = NoChallenge
    /\ scn = [NoScenario EXCEPT !.channels = TRUE]

NextAlerts ==
    \/ Initialize(Urls)
    \/ TimerFire
    \/ \E r \in Running, n \in NodeIds, ok \in BOOLEAN : ProbeSettle(r, n, ok)
    \/ \E r \in Running : Evaluate(r) /\ BagCardinality(alerts') <= MaxAlerts
    \/ \E a \in BagToSet(alerts), ok \in BOOLEAN : AlertSettle(a, ok)

SpecAlerts == InitAlerts /\ [][NextAlerts]_vars

\* A mesh of one configured peer and addNode calls made from tasks of the
\* caller's own, with the clock advancing between the steps.
NextTimed ==
    \/ MicrotasksDrained /\ Initialize({1})
    \/ TimerFire
    \/ \E r \in Running, n \in NodeIds, ok \in BOOLEAN : ProbeSettle(r, n, ok)
    \/ \E r \in Running : Evaluate(r)
    \/ \E u \in 1..TimedNodes : MicrotasksDrained /\ AddNode(u)
    \/ Tock

SpecTimed == Init /\ [][NextTimed]_vars

\* A mesh of three configured peers whose callers register and remove
\* any of the listeners at any time.
NextListeners ==
    \/ Initialize(Urls)
    \/ TimerFire
    \/ \E r \in Running, n \in NodeIds, ok \in BOOLEAN : ProbeSettle(r, n, ok)
    \/ \E r \in Running : Evaluate(r)
    \/ \E l \in Listeners : OnEmergency(l)
    \/ \E l \in Listeners : OnAuthenticationRequired(l)
    \/ \E l \in Listeners : RemoveEmergencyCallback(l)
    \/ \E l \in Listeners : RemoveAuthenticationCallback(l)

SpecListeners == Init /\ [][NextListeners]_vars

\* A service initialized with any of the peers, each configured with any of
\* the tokens, that receives heartbeat requests while its initial health
\* check runs and after it; listeners are registered on the new service.
InitRoute ==
    /\ nodes = [i \in NodeIds |-> Absent]
    /\ systemStatus = "disarmed"
    /\ heartbeatInterval = FALSE
    /\ emergencyCallbacks = ApiListeners
    /\ authenticationCallbacks = ApiListeners
    /\ tasks = EmptyBag
    /\ now = StartTime
    /\ stopped = FALSE
    /\ stale = [auth |-> {}, emerg |-> {}]
    /\ ev = NoEv
    /\ ret = NoRet
    /\ alerts = EmptyBag
    /\ http = NoHttp
    /\ chal = NoChallenge
    /\ \E t \in [Urls -> Tokens] : scn = [NoScenario EXCEPT !.tokens = t]

NextRoute ==
    \/ \E urls \in SUBSET Urls : Initialize(urls)
    \/ \E r \in Running, n \in NodeIds, ok \in BOOLEAN : ProbeSettle(r, n, ok)
    \/ \E r \in Running : Evaluate(r)
    \/ \E request \in Requests : POST(request)

SpecRoute == InitRoute /\ [][NextRoute]_vars

\* A mesh of three configured peers that may fail to answer until, at some
\* point, they recover: a probe sent after that point is answered, one sent
\* before it may still fail. The timer fires at every interval while it is
\* set, a fetch settles (by the abort after HEARTBEAT_TIMEOUT at the latest)
\* and a continuation that is ready is run.
InitLive ==
    /\ nodes = [i \in NodeIds |-> Absent]
    /\ systemStatus = "disarmed"
    /\ heartbeatInterval = FALSE
    /\ emergencyCallbacks = {}
    /\ authenticationCallbacks = {}
    /\ tasks = EmptyBag
    /\ now = StartTime
    /\ stopped = FALSE
    /\ stale = [auth |-> {}, emerg |-> {}]
    /\ ev = NoEv
    /\ ret = NoRet
    /\ alerts = EmptyBag
    /\ http = NoHttp
    /\ chal = NoChallenge
    /\ scn = [NoScenario EXCEPT !.failing = NodeIds]

NextLive ==
    \/ Initialize(Urls)
    \/ TimerFire
    \/ \E r \in Running, n \in NodeIds, ok \in BOOLEAN :
          (r.phase = 0 => ok) /\ ProbeSettle(r, n, ok)
    \/ \E r \in Running : Evaluate(r)
    \/ PeersRecover

SpecLive ==
    /\ InitLive /\ [][NextLive]_vars
    /\ WF_vars(TimerFire)
    /\ WF_vars(\E r \in Running, n \in NodeIds, ok \in BOOLEAN :
                  (r.phase = 0 => ok) /\ ProbeSettle(r, n, ok))
    /\ WF_vars(\E r \in Running : Evaluate(r))

\* The same with a log, per node object in the Map, of the latest start
\* time among the probes of it that have settled.
InitClock ==
    /\ nodes = [i \in NodeIds |-> Absent]
    /\ systemStatus = "disarmed"
    /\ heartbeatInterval = FALSE
    /\ emergencyCallbacks = {}
    /\ authenticationCallbacks = {}
    /\ tasks = EmptyBag
    /\ now = StartTime
    /\ stopped = FALSE
    /\ stale = [auth |-> {}, emerg |-> {}]
    /\ ev = NoEv
    /\ ret = NoRet
    /\ alerts = EmptyBag
    /\ http = NoHttp
    /\ chal = NoChallenge
    /\ scn = [NoScenario EXCEPT !.clock = TRUE]

SpecClock == InitClock /\ [][NextTimed]_vars

\* One challenge of the PIN challenge service: submissions with right or
\* wrong PINs at any time, concurrently, and the expiry timer.
NextChallenge ==
    \/ IssuePinChallenge
    \/ IssueResume
    \/ Expire
    \/ handleChallengeTimeout
    \/ submitPinAttempt
    \/ \E isValidPin \in BOOLEAN : VerifySettle(isValidPin)
    \/ \E c \in {"completed", "failed", "expired", "timeout"} : HandlerSettle(c)

SpecChallenge == Init /\ [][NextChallenge]_vars

\* ------------------------------------------------------------- claims
\* Health checks (ticks and the initial check) suspended at their barrier.
ChecksInProgress ==
    LET S == {r \in Running : r.kind \in {"tick", "init"}}
    IN  BagCardinality([r \in S |-> CopiesIn(r, tasks)])

\* How often each listener of a Set is called when all are called once.
OnceEach(callbacks) == [l \in Listeners |-> IF l \in callbacks THEN 1 ELSE 0]

\* C1: right after every posture evaluation (by a tick, the initial check,
\* addNode or removeNode) the recorded posture is the quorum mapping of the
\* number of online nodes: >= 3 armed, 2 disarmed, <= 1 critical, whatever
\* the number of registered nodes.
C1_PostureIsQuorum ==
    ev.op = "eval" =>
        LET k == OnlineNodes(nodes)
        IN  /\ k >= 3 => systemStatus = "armed"
            /\ k = 2 => systemStatus = "disarmed"
            /\ k <= 1 => systemStatus = "critical"

\* C1 witness: an evaluation run by addNode found three registered nodes of
\* which two are online, and recorded disarmed.
C1_Witness ==
    /\ ev.op = "eval" /\ ev.src = "add"
    /\ TotalNodes(nodes) = 3 /\ OnlineNodes(nodes) = 2
    /\ systemStatus = "disarmed"

\* C2: an evaluation that moves the posture from armed to disarmed calls
\* every registered authentication listener exactly once, and an
\* evaluation that finds the posture disarmed and leaves it disarmed calls
\* no authentication listener.
C2_AuthOncePerEdge ==
    ev.op = "eval" =>
        /\ ev.prev = "armed" /\ systemStatus = "disarmed"
              => ev.auth = OnceEach(authenticationCallbacks)
        /\ ev.prev = "disarmed" /\ systemStatus = "disarmed"
              => ev.auth = NoCalls

\* C2 witness: a tick's evaluation took the posture from armed to disarmed
\* with an authentication listener registered.
C2_Witness ==
    /\ ev.op = "eval" /\ ev.src = "tick"
    /\ ev.prev = "armed" /\ systemStatus = "disarmed"
    /\ authenticationCallbacks # {}

\* C3: an evaluation that moves the posture from armed or disarmed to
\* critical calls every registered emergency listener exactly once, and an
\* evaluation that finds the posture critical and leaves it critical calls
\* no emergency listener, whatever other calls are suspended meanwhile.
C3_EmergencyOncePerEdge ==
    ev.op = "eval" =>
        /\ ev.prev \in {"armed", "disarmed"} /\ systemStatus = "critical"
              => ev.emerg = OnceEach(emergencyCallbacks)
        /\ ev.prev = "critical" /\ systemStatus = "critical"
              => ev.emerg = NoCalls

\* C3 witness: an evaluation took the posture from armed to critical with an
\* emergency listener registered while another health check was in flight.
C3_Witness ==
    /\ ev.op = "eval"
    /\ ev.prev = "armed" /\ systemStatus = "critical"
    /\ emergencyCallbacks # {}
    /\ ChecksInProgress > 0

\* C4: an evaluation whose posture pair is not armed->disarmed calls no
\* authentication listener, and one whose pair is not non-critical->critical
\* calls no emergency listener; so staying put, disarmed->armed,
\* critical->armed and critical->disarmed call no listener at all, and
\* armed->critical calls no authentication listener.
C4_NoListenerOnOtherTransitions ==
    ev.op = "eval" =>
        /\ ~(ev.prev = "armed" /\ systemStatus = "disarmed") => ev.auth = NoCalls
        /\ ~(ev.prev # "critical" /\ systemStatus = "critical") => ev.emerg = NoCalls

\* C4 witness: an evaluation re-entered disarmed from critical with both
\* kinds of listener registered.
C4_Witness ==
    /\ ev.op = "eval"
    /\ ev.prev = "critical" /\ systemStatus = "disarmed"
    /\ authenticationCallbacks # {} /\ emergencyCallbacks # {}

\* C5: three configured peers all answering give the snapshot {3, 3, armed,
\* false, false} once initialize has resolved; after one peer stops
\* answering, the first settled tick that started afterwards leaves
\* {onlineNodes 2, disarmed, requiresUserAuthentication} with every
\* authentication listener called once in all; after a second peer stops
\* answering, the first settled tick that started afterwards leaves
\* {onlineNodes 1, critical, emergencyTriggered} with every emergency
\* listener called once in all and one alert notice, carrying onlineNodes 1
\* and totalNodes 3.
C5_EndToEnd ==
    scn.rec =>
        /\ scn.initResolved /\ scn.failing = {}
              => getMeshStatus =
                    [totalNodes |-> 3, onlineNodes |-> 3, systemStatus |-> "armed",
                     requiresUserAuthentication |-> FALSE,
                     emergencyTriggered |-> FALSE]
        /\ scn.observed = 1 /\ Cardinality(scn.failing) = 1
              => /\ getMeshStatus.onlineNodes = 2
                 /\ getMeshStatus.systemStatus = "disarmed"
                 /\ getMeshStatus.requiresUserAuthentication
                 /\ scn.authCount = OnceEach(authenticationCallbacks)
                 /\ scn.emergCount = NoCalls
        /\ scn.observed = 2
              => /\ getMeshStatus.onlineNodes = 1
                 /\ getMeshStatus.systemStatus = "critical"
                 /\ getMeshStatus.emergencyTriggered
                 /\ scn.authCount = OnceEach(authenticationCallbacks)
                 /\ scn.emergCount = OnceEach(emergencyCallbacks)
                 /\ scn.notices = << <<1, 3>> >>

\* C5 witness: the scenario ran to its end with listeners of both kinds.
C5_Witness ==
    /\ scn.rec /\ scn.observed = 2
    /\ authenticationCallbacks # {} /\ emergencyCallbacks # {}

\* C6: a listener that was registered when shutdown() was called, and has
\* not been registered again since, is not called by any later step.
C6_NoStaleListenerCalled ==
    \A l \in Listeners :
        /\ l \in stale.auth => ev.auth[l] = 0
        /\ l \in stale.emerg => ev.emerg[l] = 0

\* C6 witness: after shutdown() a tick that was in flight settled and its
\* evaluation took the posture from armed to critical, with listeners of
\* both kinds registered at the shutdown.
C6_Witness ==
    /\ stopped /\ ev.op = "eval" /\ ev.src = "tick"
    /\ ev.prev = "armed" /\ systemStatus = "critical"
    /\ stale.auth # {} /\ stale.emerg # {}

\* C7 (as claimed): once shutdown() has returned, no step calls a listener
\* or sends an alert or failsafe request, and the timer stays cancelled.
C7_NoDispatchAfterShutdown ==
    stopped =>
        /\ ev.auth = NoCalls /\ ev.emerg = NoCalls
        /\ ev.alert = <<>> /\ ev.failsafe = <<>>
        /\ ~heartbeatInterval

\* C8 (as claimed): at most one health check (tick or initial check) of the
\* instance is in progress at any time.
C8_NoOverlappingTicks == ChecksInProgress <= 1

\* C9 (as claimed): when the posture is evaluated, no probe of a registered
\* node is in flight.
C9_NoProbeInFlightAtEvaluation == ev.op = "eval" => InFlight = {}

\* C10: a health check evaluates the posture only when none of its probes
\* is unsettled; a suspended call leaves only through its evaluation (a
\* probe that fails does not abort it); and the settling of a probe of a
\* node changes no other node.
C10_Barrier ==
    [][ /\ ev'.op = "eval" /\ ev'.src \in {"tick", "init"} => ev'.unsettled = 0
        /\ BagCardinality(tasks') < BagCardinality(tasks)
              => ev'.op = "eval" /\ ev'.src \in {"tick", "init", "add"}
        /\ \A r \in Running : \A n \in r.pending : \A ok \in BOOLEAN :
              tasks' = (tasks (-) SetToBag({r})) (+) SetToBag({Settled(r, n, ok)})
                 => \A m \in NodeIds \ {n} : nodes'[m] = nodes[m]
      ]_vars

\* C10 witness: a tick whose probe of one node failed while another node
\* answered has been evaluated.
C10_Witness ==
    /\ ev.op = "eval" /\ ev.src = "tick" /\ ev.unsettled = 0
    /\ \E n \in NodeIds : nodes[n].status = "unreachable"
    /\ \E n \in NodeIds : nodes[n].status = "online"

\* C11 (as claimed): every snapshot getMeshStatus() returns, whenever it is
\* taken, carries the posture that the quorum mapping gives for the
\* snapshot's own onlineNodes.
C11_SnapshotConsistent ==
    getMeshStatus.systemStatus = NextSystemStatus(getMeshStatus.onlineNodes)

\* C12: as long as neither initialize nor addNode has been called, the
\* snapshot is {totalNodes 0, onlineNodes 0, disarmed, no authentication
\* required, no emergency}.
C12_FreshSnapshot ==
    ~scn.initialized /\ ~scn.added =>
        getMeshStatus = [totalNodes |-> 0, onlineNodes |-> 0,
                         systemStatus |-> "disarmed",
                         requiresUserAuthentication |-> FALSE,
                         emergencyTriggered |-> FALSE]

\* C12 witness: a service that has only had listeners registered and an
\* unknown id removed reports an empty, disarmed mesh.
C12_Witness ==
    /\ ~scn.initialized /\ ~scn.added
    /\ emergencyCallbacks # {} /\ authenticationCallbacks # {}
    /\ getMeshStatus.totalNodes = 0 /\ getMeshStatus.systemStatus = "disarmed"

C14_RegisterExistingIsNoOp ==
    [][ \A urls \in SUBSET Urls :
          (urls # {} /\ (Initialize(urls) \/ \E u \in urls : urls = {u} /\ AddNode(u)))
             => \A u \in urls :
                   LET id == generateNodeId(u)
                   IN  IF nodes[id].status # "absent"
                       THEN nodes'[id] = nodes[id]
                       ELSE nodes'[id] = NewNode(u)
      ]_vars

\* C15: removeNode(id) returns true exactly when id was registered, and
\* then the node is no longer listed; for an unknown id it returns false and
\* leaves the registry, the posture, the snapshot and the suspended calls as
\* they were, calling no listener and sending no alert.
C15_RemoveNode ==
    [][ ret'.op = "removeNode" =>
          LET id == ret'.nodeId
          IN  /\ ret'.removed <=> id \in Registered(nodes)
              /\ ret'.removed => id \notin Registered(nodes')
              /\ ~ret'.removed =>
                    /\ nodes' = nodes /\ systemStatus' = systemStatus
                    /\ getMeshStatus' = getMeshStatus
                    /\ tasks' = tasks
                    /\ ev'.op = "none"
                    /\ ev'.auth = NoCalls /\ ev'.emerg = NoCalls
                    /\ ev'.alert = <<>> /\ ev'.failsafe = <<>>
      ]_vars

\* C15 witness: removeNode of an unknown id has returned false on a mesh of
\* two online nodes with a health check in flight.
C15_Witness ==
    /\ ret.op = "removeNode" /\ ~ret.removed
    /\ OnlineNodes(nodes) = 2 /\ tasks # EmptyBag

\* C16 (as claimed): when addNode returns, its probe of the new node has
\* settled and the posture has been evaluated by the call itself, and if
\* the probe succeeded and the node has not been removed meanwhile, the
\* registry lists the node as online, so that a snapshot taken then counts
\* it in onlineNodes.
C16_AddNodeImmediateProbe ==
    ret.op = "addNode" =>
        /\ ev.op = "eval" /\ ev.src = "add" /\ ev.unsettled = 0
        /\ ret.probed # "none"
        /\ ret.probed = "ok" /\ ret.nodeId \in Registered(nodes) =>
              /\ nodes[ret.nodeId].status = "online"
              /\ getMeshStatus.onlineNodes >= 1

\* C17: when listeners that throw are among those an evaluation calls, the
\* evaluation still calls every registered listener of the event exactly
\* once, records the posture the quorum mapping gives, sends the emergency
\* requests of an emergency, ends the health check and leaves the timer set.
C17_ThrowingListenerIsolated ==
    [][ ev'.op = "eval" =>
          /\ AuthTriggered(ev'.prev, OnlineNodes(nodes'))
                => ev'.auth = OnceEach(authenticationCallbacks)
          /\ EmergencyTriggered(ev'.prev, OnlineNodes(nodes'))
                => /\ ev'.emerg = OnceEach(emergencyCallbacks)
                   /\ ev'.alert # <<>> /\ ev'.failsafe # <<>>
          /\ systemStatus' = NextSystemStatus(OnlineNodes(nodes'))
          /\ BagCardinality(tasks') = BagCardinality(tasks) - 1
          /\ heartbeatInterval'
      ]_vars

\* C17 witness: an evaluation went from armed to disarmed with two
\* authentication listeners registered of which the first throws, while a
\* later tick is already in flight.
C17_Witness ==
    /\ ev.op = "eval" /\ ev.prev = "armed" /\ systemStatus = "disarmed"
    /\ authenticationCallbacks = {1, 2} /\ 1 \in scn.throwers
    /\ ev.auth = OnceEach({1, 2})
    /\ tasks # EmptyBag

\* The requests of one emergency.
AllChannels == {"/api/send-alert", "/api/emergency-sms", "/api/emergency-call",
                "/api/activate-failsafe"}

\* C18 (as claimed): an evaluation that raises an emergency calls the
\* emergency listeners and issues the alert and the failsafe request, and a
\* call of sendEmergencyAlerts returns only when all four channels of its
\* emergency have been attempted, whichever of the requests failed.
C18_ChannelsIndependent ==
    [][ /\ BagCardinality(alerts') > BagCardinality(alerts)
           => /\ ev'.emerg = OnceEach(emergencyCallbacks)
              /\ ev'.alert # <<>> /\ ev'.failsafe # <<>>
        /\ \A a \in BagToSet(alerts) :
              alerts' = alerts (-) SetToBag({a}) => a.attempted = AllChannels
      ]_vars

\* The step is the settling of the probe of node n that the call r awaits,
\* n being the node object the registry holds.
SettleStep(r, n) ==
    /\ n \in r.pending \ r.orphans
    /\ \E ok \in BOOLEAN :
          tasks' = (tasks (-) SetToBag({r})) (+) SetToBag({Settled(r, n, ok)})

\* C19 (as claimed): a probe that settles leaves its node either online with
\* lastHeartbeat the current time and latency the time since the probe
\* started, or, lastHeartbeat kept, unreachable when at most 2 x 3000 ms
\* have passed since the last heartbeat and offline when more have; and the
\* status of a registered node changes in no other step.
C19_StatusRule ==
    [][ /\ \A r \in Running : \A n \in NodeIds :
              SettleStep(r, n) =>
                 \/ /\ nodes'[n].status = "online"
                    /\ nodes'[n].lastHeartbeat = now
                    /\ nodes'[n].latency = now - r.start
                 \/ /\ nodes'[n].status =
                          (IF now - nodes[n].lastHeartbeat > 2 * 3000
                           THEN "offline" ELSE "unreachable")
                    /\ nodes'[n].lastHeartbeat = nodes[n].lastHeartbeat
        /\ \A n \in Registered(nodes) \cap Registered(nodes') :
              nodes'[n].status # nodes[n].status
                 => \E r \in Running : SettleStep(r, n)
      ]_vars

\* C20 (as claimed): when a probe of a node that has never answered fails
\* within 2 x 3000 ms of the construction of the service, the node is
\* listed as unreachable.
C20_FailedProbeUnreachable ==
    [][ \A r \in Running : \A n \in NodeIds :
          /\ SettleStep(r, n)
          /\ nodes'[n].status # "online"
          /\ nodes[n].lastHeartbeat = 0
          /\ now - StartTime <= 2 * HEARTBEAT_TIMEOUT
          => nodes'[n].status = "unreachable"
      ]_vars

\* C21: the two listener sets are independent and each dispatch goes by the
\* set as it is at that moment: a step that changes the emergency set adds
\* or removes one listener and leaves the authentication set alone, and the
\* other way round; an evaluation that dispatches an event calls exactly
\* the listeners registered for it then (none that was removed, every one
\* still registered), and calls no listener otherwise.
C21_ListenerSetsIndependent ==
    [][/\ emergencyCallbacks' # emergencyCallbacks
             => /\ authenticationCallbacks' = authenticationCallbacks
                /\ \E l \in Listeners :
                      emergencyCallbacks' \in {emergencyCallbacks \cup {l},
                                              emergencyCallbacks \ {l}}
       /\ authenticationCallbacks' # authenticationCallbacks
             => /\ emergencyCallbacks' = emergencyCallbacks
                /\ \E l \in Listeners :
                      authenticationCallbacks' \in {authenticationCallbacks \cup {l},
                                                   authenticationCallbacks \ {l}}
       /\ ev'.op = "eval"
             => /\ ev'.auth = IF ev'.prev = "armed" /\ systemStatus' = "disarmed"
                              THEN OnceEach(authenticationCallbacks') ELSE NoCalls
                /\ ev'.emerg = IF ev'.prev # "critical" /\ systemStatus' = "critical"
                               THEN OnceEach(emergencyCallbacks') ELSE NoCalls
      ]_vars

\* C21 witness: an evaluation dispatched the authentication event while
\* listener 2 was in the authentication set and listener 1 only in the
\* emergency set: listener 2 was called once, listener 1 not at all.
C21_Witness ==
    /\ ev.op = "eval" /\ ev.prev = "armed" /\ systemStatus = "disarmed"
    /\ authenticationCallbacks = {2} /\ emergencyCallbacks = {1}
    /\ ev.auth[2] = 1 /\ ev.auth[1] = 0 /\ ev.emerg = NoCalls

\* The last step handled an inbound heartbeat.
Handled == http.response.status # 0

\* The body of the last request carries nodeId, timestamp and status.
CarriesFields ==
    /\ http.request.parsable
    /\ http.request.nodeId # 0
    /\ http.request.timestamp # 0
    /\ http.request.status # ""

ProbeFails ==
    \A n \in Registered(nodes) :
        checkNodeHealth(nodes[n], responseOk(http.response.status), now).status # "online"

\* C23 as stated: every rejected heartbeat is answered 401 or 400, a body
\* that cannot be parsed included, and the probing side takes every such
\* answer as a failed probe.
C23_RejectedWith401Or400 ==
    Handled /\ ~http.response.success =>
        /\ http.response.status \in {400, 401}
        /\ ProbeFails

\* C23 amended: every rejected heartbeat is answered 401 (no Bearer header,
\* or no node with that id and token), 400 (a field missing) or 500 (a
\* Bearer request whose body cannot be read, and only then) and with no
\* other status, and the probing side takes every such answer as a failed
\* probe.
C23_RejectedWith401Or400Or500 ==
    Handled /\ ~http.response.success =>
        /\ http.response.status \in {400, 401, 500}
        /\ http.response.status = 500
              <=> (http.request.scheme = "Bearer" /\ ~http.request.parsable)
        /\ http.response.status = 400
              => (http.request.scheme = "Bearer" /\ http.request.parsable
                  /\ ~CarriesFields)
        /\ ProbeFails

\* C23 witness: a Bearer request with an unreadable body was answered 500
\* by a service that has nodes registered.
C23_Witness ==
    /\ Handled /\ http.request.scheme = "Bearer" /\ ~http.request.parsable
    /\ http.response.status = 500
    /\ Registered(nodes) # {}

\* C24: once initialize has set the timer, ticks are issued again and
\* again whatever the posture is, and if from some point on the three
\* registered peers (three or more) answer every probe, then from some
\* point on all of them are online and the posture is armed for good.
C24_TicksGoOnAndRecover ==
    /\ (<>heartbeatInterval) => []<><<TimerFire>>_vars
    /\ <>[](heartbeatInterval /\ scn.failing = {}
              => /\ OnlineNodes(nodes) = TotalNodes(nodes)
                 /\ OnlineNodes(nodes) >= MIN_NODES_ARMED
                 /\ systemStatus = "armed")

\* C24 witness: after the peers recovered, a tick's evaluation took the
\* posture from critical to armed.
C24_Witness ==
    /\ scn.failing = {} /\ heartbeatInterval
    /\ ev.op = "eval" /\ ev.src = "tick" /\ ev.prev = "critical"
    /\ systemStatus = "armed" /\ OnlineNodes(nodes) >= MIN_NODES_ARMED

\* C25: a tick probes the nodes registered when it starts; the settling of
\* a probe never changes which nodes are registered, and the settling of a
\* probe of a node that has been removed meanwhile changes nothing in the
\* Map; the continuation of a health check or of addNode leaves the Map
\* alone; after every step the snapshot's totalNodes is the number of
\* registered nodes and its onlineNodes counts registered nodes only.
C25_RegistryNotCorrupted ==
    [][/\ \A P \in SUBSET NodeIds :
             tasks' = tasks (+) SetToBag({[kind |-> "tick", pending |-> P,
                                           orphans |-> {}, start |-> now, phase |-> 0,
                                           nodeId |-> 0, probed |-> "none"]})
                => P = Registered(nodes)
       /\ \A r \in Running, n \in NodeIds :
             n \in r.pending
             /\ (\E ok \in BOOLEAN :
                    tasks' = (tasks (-) SetToBag({r})) (+) SetToBag({Settled(r, n, ok)}))
                => /\ Registered(nodes') = Registered(nodes)
                   /\ n \notin Registered(nodes) => nodes' = nodes
       /\ ev'.op = "eval" /\ ev'.src \in {"tick", "init", "add"} => nodes' = nodes
       /\ getMeshStatus'.totalNodes = Cardinality(Registered(nodes'))
       /\ getMeshStatus'.onlineNodes =
             Cardinality({i \in Registered(nodes') : nodes'[i].status = "online"})
      ]_vars

\* C25 witness: removeNode has just removed a node that a running tick is
\* still probing, while another node of that tick is registered.
C25_Witness ==
    /\ ret.op = "removeNode" /\ ret.removed
    /\ ret.nodeId \notin Registered(nodes)
    /\ \E r \in Running :
          /\ r.kind = "tick"
          /\ ret.nodeId \in r.pending
          /\ r.pending \cap Registered(nodes) # {}

\* C26: an evaluation run by addNode or by removeNode calls no
\* authentication listener and no emergency listener and sends no alert
\* and no failsafe request.
C26_RegistryCallsDispatchNothing ==
    ev.op = "eval" /\ ev.src \in {"add", "remove"} =>
        /\ ev.auth = NoCalls /\ ev.emerg = NoCalls
        /\ ev.alert = <<>> /\ ev.failsafe = <<>>

\* C27: a step that handles an inbound heartbeat, whatever the answer,
\* leaves the Map, every node's fields, the recorded posture, the snapshot,
\* the listener sets and the suspended health checks as they were, calls
\* no listener and sends no request.
C27_HeartbeatReadOnly ==
    [][http'.response.status # 0 =>
          /\ nodes' = nodes
          /\ systemStatus' = systemStatus
          /\ getMeshStatus' = getMeshStatus
          /\ tasks' = tasks
          /\ emergencyCallbacks' = emergencyCallbacks
          /\ authenticationCallbacks' = authenticationCallbacks
          /\ ev'.op = "none"
          /\ ev'.auth = NoCalls /\ ev'.emerg = NoCalls
          /\ ev'.alert = <<>> /\ ev'.failsafe = <<>>
      ]_vars

\* C27 witness: a heartbeat carrying the id of a registered node that is
\* not online was answered (200 or 401) by a service with listeners
\* registered whose posture is critical.
C27_Witness ==
    /\ Handled /\ http.response.status \in {200, 401}
    /\ http.request.nodeId \in Registered(nodes)
    /\ nodes[http.request.nodeId].status # "online"
    /\ systemStatus = "critical"
    /\ emergencyCallbacks # {} /\ authenticationCallbacks # {}

\* C28: when a probe of a node settles that started before another probe
\* of the same node object whose result is already recorded, the node's
\* recorded status stays as it is.
C28_LatestProbeWins ==
    [][\A r \in Running, n \in NodeIds :
          SettleStep(r, n) /\ r.start < scn.latest[n]
             => nodes'[n].status = nodes[n].status
      ]_vars

\* C29: an evaluation that finds the posture disarmed, as it is on a new
\* service, and fewer than two nodes online records critical and runs the
\* emergency path once (each emergency listener called once, one alert
\* request with the counts of that moment, one failsafe request); an
\* evaluation that finds the posture critical and leaves it critical runs
\* none of it.
C29_FirstCriticalRunsEmergencyOnce ==
    ev.op = "eval" =>
        /\ ev.prev = "disarmed" /\ OnlineNodes(nodes) < 2
              => /\ systemStatus = "critical"
                 /\ ev.emerg = OnceEach(emergencyCallbacks)
                 /\ ev.alert = <<OnlineNodes(nodes), TotalNodes(nodes)>>
                 /\ ev.failsafe = <<OnlineNodes(nodes)>>
        /\ ev.prev = "critical" /\ systemStatus = "critical"
              => /\ ev.emerg = NoCalls
                 /\ ev.alert = <<>> /\ ev.failsafe = <<>>

\* C29 witness: the first call on a new service with an emergency listener
\* was initialize with an empty list; its evaluation found no node,
\* recorded critical and called the listener.
C29_Witness ==
    /\ ev.op = "eval" /\ ev.src = "init" /\ ev.prev = "disarmed"
    /\ TotalNodes(nodes) = 0 /\ ~scn.added
    /\ systemStatus = "critical"
    /\ emergencyCallbacks # {} /\ ev.emerg = OnceEach(emergencyCallbacks)

\* C30: a challenge is never both completed and failed, its attempts never
\* exceed maxAttempts, handleChallengeFailed runs at most once for it and
\* never when it is completed.
C30_OneTerminalOutcome ==
    /\ ~(chal.completed /\ chal.failed)
    /\ chal.attempts <= maxAttempts
    /\ chal.failures <= 1
    /\ chal.completed => chal.failures = 0
====
